---- MODULE Spec2Model ----
(***************************************************************************)
(* A model of the heightmap-navmesh renderer: the staged buffer            *)
(* (CpuBuffer + Batch, resources/buffer.rs), the debug line pipeline       *)
(* (pipelines/debug.rs) and the frame orchestrator (Game, game.rs).        *)
(*                                                                         *)
(* Three specifications share the variables:                               *)
(*   Spec        the frame orchestrator driven by window events            *)
(*   SpecBuffer  one CpuBuffer<T> driven by clear/batch/push/close         *)
(*   SpecDebug   the DebugPipeline driven by clear/batch/push_vertex/close *)
(***************************************************************************)
EXTENDS Integers, Sequences, FiniteSets

VARIABLES
    \* ---- staged buffer (resources/buffer.rs) ----
    cb,          \* the CpuBuffer<T>: [buffer, data, usage]
    elem_size,   \* std::mem::size_of::<T>() of the buffer's record type
    cur_batch,   \* the Batch most recently opened on cb: [start]
    \* ---- debug line pipeline (pipelines/debug.rs) ----
    pipeline,    \* the DebugPipeline: [vertex_buffer, index_buffer]
    dbatch,      \* the DebugBatch most recently opened: [current_vertex, vertices, indices]
    \* ---- shared by both buffer specifications ----
    open,        \* TRUE while a batch is alive (the exclusive borrow is held)
    device,      \* the wgpu::Device: [created], the number of buffers it has created
    gpu_calls,   \* the device/queue calls issued by the last operation
    bop,         \* the last buffer operation
    closed,      \* the number of batches closed so far
    cap0,        \* the capacity passed to with_capacity
    pushed,      \* the records pushed through the batch most recently opened
    prev_buf,    \* the GPU buffer of cb before the last operation
    \* ---- frame orchestrator (game.rs) ----
    game,        \* the fields of struct Game
    window,      \* the winit Window the game owns
    surface,     \* the wgpu Surface: its last configuration and the live frame target
    now,         \* the monotonic clock read by instant::Instant::now()
    calls,       \* the window/surface/queue calls issued by the last handler
    op,          \* the last handler that ran
    acq,         \* the result of get_current_texture in the last render call
    frame,       \* what the last handler, if it drew a frame, passed to the camera
    \* ---- the event history the frame orchestrator's properties refer to ----
    held,        \* the navigation keys whose most recent event is a press
    look,        \* TRUE when the most recent left-button event is a press
    drawn_at,    \* the clock reading of the last frame that was drawn
    \* ---- mesh construction (resources/model.rs) ----
    asset,       \* what load_binary and gltf::import_slice return for the file
    document,    \* the glTF document handed to Model::from_gltf
    buffers,     \* the buffers handed to Model::from_gltf beside it
    loaded,      \* what Model::load returned for them
    \* ---- event loop (main.rs) ----
    loop,        \* "running", "exiting" once target.exit() was called, "exited"
    saved,       \* the configurations handed to save_json, in order
    startup,     \* the configuration main loaded and handed to Game::new
    monitor,     \* what window.current_monitor() names
    attempts     \* the parity of the number of acquisition attempts so far

bufVars   == <<cb, elem_size, cur_batch>>
debugVars == <<pipeline, dbatch>>
stageVars == <<open, device, gpu_calls, bop, closed, cap0, pushed, prev_buf>>
gameVars  == <<game, window, surface, now, calls, op, acq, frame, held, look, drawn_at>>
modelVars == <<asset, document, buffers, loaded>>
loopVars  == <<loop, saved, startup, monitor, attempts>>
vars      == <<bufVars, debugVars, stageVars, gameVars, modelVars, loopVars>>

(***************************************************************************)
(* Bounds of the model.                                                    *)
(***************************************************************************)
MaxLen     == 3   \* longest host sequence explored
MaxCap     == 2   \* largest capacity passed to with_capacity
MaxBatches == 3   \* number of batches opened in one run
Values     == {1, 2}   \* the records pushed

(***************************************************************************)
(* Program constants.                                                      *)
(***************************************************************************)
SizeOfU32         == 4    \* size_of::<u32>(), the index record
SizeOfDebugVertex == 24   \* size_of::<DebugVertex>(): two glam::Vec3
DebugCapacity     == 64   \* capacity of both debug buffers
CopyBufferAlignment == 4  \* wgpu::COPY_BUFFER_ALIGNMENT, used by create_buffer_init
ElemSizes == {SizeOfU32, SizeOfDebugVertex}
Zero      == 0    \* a record of a freshly created (zero-initialised) GPU buffer

Max(a, b) == IF a >= b THEN a ELSE b

(***************************************************************************)
(* wgpu::Device::create_buffer: a zero-initialised buffer of `size` bytes. *)
(* mem is the content read as records of sz bytes.                         *)
(***************************************************************************)
create_buffer(id, size, sz) ==
    [id |-> id, size |-> size, mem |-> [i \in 1..(size \div sz) |-> Zero]]

(***************************************************************************)
(* DeviceExt::create_buffer_init: a buffer holding `contents`, its size    *)
(* the contents' size padded to COPY_BUFFER_ALIGNMENT (at least one unit). *)
(***************************************************************************)
PaddedSize(n) ==
    Max(((n + CopyBufferAlignment - 1) \div CopyBufferAlignment) * CopyBufferAlignment,
        CopyBufferAlignment)

create_buffer_init(id, contents, sz) ==
    LET size == PaddedSize(Len(contents) * sz)
    IN  [id |-> id, size |-> size,
         mem |-> [i \in 1..(size \div sz) |->
                    IF i <= Len(contents) THEN contents[i] ELSE Zero]]

(***************************************************************************)
(* wgpu::Queue::write_buffer: copy `contents` into the buffer at byte      *)
(* `offset`; every other record keeps its value.                           *)
(***************************************************************************)
write_buffer(buffer, offset, contents, sz) ==
    LET first == offset \div sz
    IN  [buffer EXCEPT !.mem =
            [i \in 1..Len(buffer.mem) |->
                IF i > first /\ i <= first + Len(contents)
                THEN contents[i - first] ELSE buffer.mem[i]]]

(***************************************************************************)
(* CpuBuffer::with_capacity (buffer.rs 10-28).                             *)
(***************************************************************************)
CpuBuffer_with_capacity(id, capacity, sz) ==
    [buffer |-> create_buffer(id, sz * capacity, sz),
     data   |-> <<>>,
     usage  |-> "COPY_DST"]

\* CpuBuffer::clear (buffer.rs 38-40)
CpuBuffer_clear(b) == [b EXCEPT !.data = <<>>]

\* CpuBuffer::len (buffer.rs 46-48)
CpuBuffer_len(b) == Len(b.data)

\* Batch::new (buffer.rs 60-72)
Batch_new(b) == [start |-> Len(b.data)]

\* Batch::push (buffer.rs 75-77)
Batch_push(b, value) == [b EXCEPT !.data = Append(b.data, value)]

(***************************************************************************)
(* Batch::drop (buffer.rs 81-99): the device/queue calls it issues.        *)
(***************************************************************************)
NeedsRealloc_Mut(b, sz) == Len(b.data) * sz >= b.buffer.size
NeedsRealloc(b, sz) == Len(b.data) * sz > b.buffer.size

ReallocContents_Mut(b) == b.data \o b.data
ReallocContents(b) == b.data

WriteOffset_Mut(b, bt, sz) == 0
WriteOffset(b, bt, sz) == bt.start * sz

WriteContents_Mut(b, bt) == b.data
WriteContents(b, bt) == SubSeq(b.data, bt.start + 1, Len(b.data))

EmptyAtClose_Mut(b, bt) == Len(b.data) = bt.start
EmptyAtClose(b, bt) == Len(b.data) = 0

Batch_drop_calls(b, bt, sz) ==
    IF EmptyAtClose(b, bt) THEN <<>>
    ELSE IF NeedsRealloc(b, sz)
    THEN <<[call |-> "create_buffer_init", offset |-> 0,
            contents |-> ReallocContents(b)]>>
    ELSE IF Len(b.data) > 0
    THEN <<[call |-> "write_buffer", offset |-> WriteOffset(b, bt, sz),
            contents |-> WriteContents(b, bt)]>>
    ELSE <<>>

(***************************************************************************)
(* Batch::drop (buffer.rs 81-99): the buffer it leaves.  `id` is the       *)
(* identity the device gives a buffer it creates during the drop.          *)
(***************************************************************************)
Batch_drop(b, bt, sz, id) ==
    LET cs == Batch_drop_calls(b, bt, sz)
    IN  IF cs = <<>> THEN b
        ELSE IF cs[1].call = "create_buffer_init"
        THEN [b EXCEPT !.buffer = create_buffer_init(id, cs[1].contents, sz)]
        ELSE [b EXCEPT !.buffer = write_buffer(b.buffer, cs[1].offset, cs[1].contents, sz)]

\* the number of buffers the drop makes the device create
Batch_drop_created(b, bt, sz) ==
    LET cs == Batch_drop_calls(b, bt, sz)
    IN  IF cs # <<>> /\ cs[1].call = "create_buffer_init" THEN 1 ELSE 0

NoBatch == [start |-> 0]

(***************************************************************************)
(* DebugPipeline (pipelines/debug.rs).  The two staged buffers are the     *)
(* device's first two buffers.                                             *)
(***************************************************************************)
DebugPipeline_new ==
    [vertex_buffer |-> CpuBuffer_with_capacity(0, DebugCapacity, SizeOfDebugVertex),
     index_buffer  |-> CpuBuffer_with_capacity(1, DebugCapacity, SizeOfU32)]

\* DebugPipeline::clear (debug.rs 90-93)
DebugPipeline_clear_Mut(p) ==
    [vertex_buffer |-> CpuBuffer_clear(p.vertex_buffer),
     index_buffer  |-> p.index_buffer]
DebugPipeline_clear(p) ==
    [vertex_buffer |-> CpuBuffer_clear(p.vertex_buffer),
     index_buffer  |-> CpuBuffer_clear(p.index_buffer)]

\* DebugBatch::new (debug.rs 115-125), reached through DebugPipeline::batch
FirstVertex_Mut(p) == 1
FirstVertex(p) == 0

DebugBatch_new(p) ==
    [current_vertex |-> FirstVertex(p),
     vertices       |-> Batch_new(p.vertex_buffer),
     indices        |-> Batch_new(p.index_buffer)]

\* DebugBatch::push_vertex (debug.rs 128-133): the pipeline's buffers after it
push_vertex_buffers(p, db, vertex) ==
    [vertex_buffer |-> Batch_push(p.vertex_buffer, vertex),
     index_buffer  |-> Batch_push(p.index_buffer, db.current_vertex)]

\* DebugBatch::push_vertex (debug.rs 128-133): the batch after it.  The u32
\* counter cannot overflow here: a batch holds at most MaxLen vertices.
push_vertex_batch(db) ==
    [db EXCEPT !.current_vertex = db.current_vertex + 1]

NoDebugBatch == [current_vertex |-> 0, vertices |-> NoBatch, indices |-> NoBatch]

(***************************************************************************)
(* The staged buffer's operations as steps of SpecBuffer.                  *)
(***************************************************************************)
IdleBuffer == /\ cb = CpuBuffer_with_capacity(0, 0, SizeOfU32)
              /\ elem_size = SizeOfU32
              /\ cur_batch = NoBatch
IdleDebug  == /\ pipeline = DebugPipeline_new
              /\ dbatch = NoDebugBatch

StageInit(nbuffers, buf) ==
    /\ open = FALSE
    /\ device = [created |-> nbuffers]
    /\ gpu_calls = <<>>
    /\ bop = "new"
    /\ closed = 0
    /\ pushed = <<>>
    /\ prev_buf = buf

\* CpuBuffer::with_capacity: any capacity up to MaxCap, either record type
BufferInit ==
    /\ \E c \in 0..MaxCap, sz \in ElemSizes :
          /\ cb = CpuBuffer_with_capacity(0, c, sz)
          /\ elem_size = sz
          /\ cap0 = c
    /\ cur_batch = NoBatch
    /\ StageInit(1, cb.buffer)

\* cb.clear(): only callable while no batch borrows the buffer
BufClear ==
    /\ ~open
    /\ cb' = CpuBuffer_clear(cb)
    /\ prev_buf' = cb.buffer
    /\ gpu_calls' = <<>>
    /\ bop' = "clear"
    /\ UNCHANGED <<elem_size, cur_batch, open, device, closed, cap0, pushed>>

\* let batch = cb.batch(device, queue)
BufBatch ==
    /\ ~open
    /\ closed < MaxBatches
    /\ cur_batch' = Batch_new(cb)
    /\ open' = TRUE
    /\ pushed' = <<>>
    /\ prev_buf' = cb.buffer
    /\ gpu_calls' = <<>>
    /\ bop' = "batch"
    /\ UNCHANGED <<cb, elem_size, device, closed, cap0>>

\* batch.push(value)
BufPush(value) ==
    /\ open
    /\ Len(cb.data) < MaxLen
    /\ cb' = Batch_push(cb, value)
    /\ pushed' = Append(pushed, value)
    /\ prev_buf' = cb.buffer
    /\ gpu_calls' = <<>>
    /\ bop' = "push"
    /\ UNCHANGED <<elem_size, cur_batch, open, device, closed, cap0>>

\* the batch goes out of scope: Batch::drop
BufClose ==
    /\ open
    /\ cb' = Batch_drop(cb, cur_batch, elem_size, device.created)
    /\ gpu_calls' = Batch_drop_calls(cb, cur_batch, elem_size)
    /\ device' = [created |-> device.created + Batch_drop_created(cb, cur_batch, elem_size)]
    /\ open' = FALSE
    /\ closed' = closed + 1
    /\ prev_buf' = cb.buffer
    /\ bop' = "close"
    /\ UNCHANGED <<elem_size, cur_batch, cap0, pushed>>

(***************************************************************************)
(* The debug pipeline's operations as steps of SpecDebug.                  *)
(***************************************************************************)
DebugInit ==
    /\ pipeline = DebugPipeline_new
    /\ dbatch = NoDebugBatch
    /\ cap0 = DebugCapacity
    /\ StageInit(2, pipeline.vertex_buffer.buffer)

\* pipeline.clear()
DbgClear ==
    /\ ~open
    /\ pipeline' = DebugPipeline_clear(pipeline)
    /\ gpu_calls' = <<>>
    /\ bop' = "clear"
    /\ UNCHANGED <<dbatch, open, device, closed, cap0, pushed, prev_buf>>

\* let batch = pipeline.batch(device, queue)
DbgBatch ==
    /\ ~open
    /\ closed < MaxBatches
    /\ dbatch' = DebugBatch_new(pipeline)
    /\ open' = TRUE
    /\ pushed' = <<>>
    /\ gpu_calls' = <<>>
    /\ bop' = "batch"
    /\ UNCHANGED <<pipeline, device, closed, cap0, prev_buf>>

\* batch.push_vertex(vertex)
DbgPushVertex(vertex) ==
    /\ open
    /\ Len(pipeline.vertex_buffer.data) < MaxLen
    /\ pipeline' = push_vertex_buffers(pipeline, dbatch, vertex)
    /\ dbatch' = push_vertex_batch(dbatch)
    /\ pushed' = Append(pushed, vertex)
    /\ gpu_calls' = <<>>
    /\ bop' = "push_vertex"
    /\ UNCHANGED <<open, device, closed, cap0, prev_buf>>

\* the DebugBatch goes out of scope: its fields drop in declaration order,
\* vertices (debug.rs 110) then indices (debug.rs 111)
DbgClose ==
    LET nv == Batch_drop_created(pipeline.vertex_buffer, dbatch.vertices, SizeOfDebugVertex)
        ni == Batch_drop_created(pipeline.index_buffer, dbatch.indices, SizeOfU32)
    IN  /\ open
        /\ pipeline' =
              [vertex_buffer |-> Batch_drop(pipeline.vertex_buffer, dbatch.vertices,
                                            SizeOfDebugVertex, device.created),
               index_buffer  |-> Batch_drop(pipeline.index_buffer, dbatch.indices,
                                            SizeOfU32, device.created + nv)]
        /\ gpu_calls' =
              Batch_drop_calls(pipeline.vertex_buffer, dbatch.vertices, SizeOfDebugVertex)
              \o Batch_drop_calls(pipeline.index_buffer, dbatch.indices, SizeOfU32)
        /\ device' = [created |-> device.created + nv + ni]
        /\ open' = FALSE
        /\ closed' = closed + 1
        /\ bop' = "close"
        /\ UNCHANGED <<dbatch, cap0, pushed, prev_buf>>


(***************************************************************************)
(* Mesh construction (resources/model.rs).                                 *)
(*                                                                         *)
(* A document is the sequence of its meshes, a mesh the sequence of its    *)
(* primitives.  An accessor has a buffer view or none (a sparse accessor); *)
(* a view names a buffer by its index, counted from 0, and a byte range    *)
(* in it.  A primitive has the component type of its index accessor        *)
(* ("None" without one) and that accessor, an optional accessor for each   *)
(* attribute semantic, and its morph targets, each with optional position  *)
(* and normal accessors.  The buffers are passed beside the document: each *)
(* has a length in bytes and the address of its first byte modulo the      *)
(* alignment of f32.  The asset is what load_binary and                    *)
(* gltf::import_slice make of the file.                                    *)
(***************************************************************************)
MaxMeshes  == 2   \* most meshes in a document
MaxPrims   == 2   \* most primitives in the first mesh
MaxRecords == 2   \* most records in an accessor's view

SizeOfVec3 == 12  \* size_of::<glam::Vec3>()
SizeOfVec2 == 8   \* size_of::<glam::Vec2>()
AlignOfF32 == 4   \* align_of::<glam::Vec3>() = align_of::<glam::Vec2>()

None    == <<>>
Some(x) == <<x>>

Min(a, b) == IF a <= b THEN a ELSE b

View(buffer, offset, length) ==
    [buffer |-> buffer, offset |-> offset, length |-> length]
Acc(view) == [view |-> Some(view)]
Viewless  == [view |-> None]

Buf(len, addr) == [len |-> len, addr |-> addr]
BufLen == SizeOfVec3 * MaxRecords

\* MaxRecords records of `size` bytes at the start of buffer 0, and one fewer
Full(size)  == Acc(View(0, 0, size * MaxRecords))
Short(size) == Acc(View(0, 0, size * (MaxRecords - 1)))

\* accessors that make from_gltf fail where it reads their data
BadAccessors(size) ==
    {Viewless,
     Acc(View(0, 0, size * MaxRecords - 1)),        \* not a whole number of records
     Acc(View(0, 1, size * (MaxRecords - 1))),      \* starts at an odd address
     Acc(View(0, BufLen, size)),                    \* starts at the buffer's end
     Acc(View(0, 1, BufLen)),                       \* ends after the buffer's end
     Acc(View(1, 0, size))}                         \* names a buffer that is not there

RequiredAttrs == {"Positions", "Normals", "TexCoords0"}
Semantics     == RequiredAttrs \cup {"Colors0"}

\* the record size from_gltf casts an attribute's data to (model.rs 107-112)
SizeOfAttr(s) == IF s = "TexCoords0" THEN SizeOfVec2 ELSE SizeOfVec3

\* every required attribute present with a full accessor
FullAttrs ==
    [s \in Semantics |-> IF s \in RequiredAttrs THEN Some(Full(SizeOfAttr(s))) ELSE None]

Target(positions, normals) == [positions |-> positions, normals |-> normals]
FullTarget == Target(Some(Full(SizeOfVec3)), Some(Full(SizeOfVec3)))

Primitive(indices, index_acc, attrs, morphs) ==
    [indices |-> indices, index_acc |-> index_acc, attrs |-> attrs, morphs |-> morphs]

\* two morph targets, full but for the accessor `a` in the slot numbered `slot`
TwoTargets(slot, a) ==
    LET acc(k) == IF k = slot THEN a ELSE Some(Full(SizeOfVec3))
    IN  <<Target(acc(1), acc(2)), Target(acc(3), acc(4))>>

\* the morph target lists from_gltf is tried on
MorphLists ==
    {<<FullTarget>>, <<FullTarget, FullTarget>>, <<FullTarget, FullTarget, FullTarget>>}
    \cup {TwoTargets(slot, None) : slot \in 1..4}
    \cup {TwoTargets(slot, Some(a)) :
            slot \in 1..4, a \in BadAccessors(SizeOfVec3) \cup {Short(SizeOfVec3)}}

\* the primitives from_gltf is tried on as the first primitive
FirstPrims ==
    {Primitive(t, Full(SizeOfVec2), FullAttrs, <<>>) :
        t \in {"U16", "U32", "U8", "I16", "F32", "None"}}
    \cup {Primitive("U16", a, FullAttrs, <<>>) : a \in BadAccessors(SizeOfVec2)}
    \cup {Primitive("U8", Viewless, FullAttrs, <<>>)}
    \cup {Primitive("U16", Full(SizeOfVec2), [FullAttrs EXCEPT ![s] = None], <<>>) :
            s \in RequiredAttrs}
    \cup UNION {{Primitive("U16", Full(SizeOfVec2),
                           [FullAttrs EXCEPT ![s] = Some(a)], <<>>) :
                    a \in BadAccessors(SizeOfAttr(s)) \cup {Short(SizeOfAttr(s))}} :
                s \in RequiredAttrs}
    \cup {Primitive("U32", Full(SizeOfVec2),
                    [FullAttrs EXCEPT !["Colors0"] = Some(Full(SizeOfVec3))], m) :
            m \in MorphLists}

\* the primitives that follow the first one, and fill the meshes after the first
OtherPrims ==
    {Primitive("U16", Full(SizeOfVec2), FullAttrs, <<>>),
     Primitive("U8", Viewless, [FullAttrs EXCEPT !["Normals"] = None], <<>>)}

Documents ==
    {[m \in 1..nm |->
        IF m = 1 THEN [k \in 1..np |-> IF k = 1 THEN first ELSE other]
        ELSE <<other>>] :
     nm \in 0..MaxMeshes, np \in 0..MaxPrims, first \in FirstPrims, other \in OtherPrims}

\* the `buffers` argument: none, one buffer, one buffer at an odd address
BufferLists == {<<>>, <<Buf(BufLen, 0)>>, <<Buf(BufLen, 1)>>}

\* what load_binary (model.rs 48) and gltf::import_slice (model.rs 49) return
Assets ==
    {[file |-> f, import |-> i] :
        f \in {"Ok", "NotFound", "PermissionDenied"}, i \in {"Ok", "Invalid"}}

Failed(kind, why) ==
    [kind |-> kind, why |-> why, index_format |-> "none", morph_buffer |-> FALSE]
Loaded(index_format, morph_buffer) ==
    [kind |-> "Ok", why |-> <<"", "">>, index_format |-> index_format,
     morph_buffer |-> morph_buffer]
NotLoaded == Failed("NotLoaded", <<"", "">>)

\* Model::get_data_for_accessor (model.rs 196-203): None without a view, a
\* panic when the view's buffer is not in `buffers` or its range is not in the
\* buffer, else the slice, here its address modulo AlignOfF32 and its length
get_data_for_accessor(a, bufs) ==
    IF a.view = None THEN [kind |-> "None"]
    ELSE LET view == a.view[1]
         IN  IF view.buffer >= Len(bufs)
             THEN [kind |-> "Panic", why |-> "index out of bounds"]
             ELSE IF view.offset > bufs[view.buffer + 1].len
             THEN [kind |-> "Panic", why |-> "range start index out of range"]
             ELSE IF view.offset + view.length > bufs[view.buffer + 1].len
             THEN [kind |-> "Panic", why |-> "range end index out of range"]
             ELSE [kind |-> "Some",
                   addr |-> (bufs[view.buffer + 1].addr + view.offset) % AlignOfF32,
                   bytes |-> view.length]

\* get_data_for_accessor(a, buffers).unwrap() at the line `site`
UnwrapData(a, bufs, site) ==
    LET data == get_data_for_accessor(a, bufs)
    IN  IF data.kind = "Panic" THEN Failed("Panic", <<"model.rs:202", data.why>>)
        ELSE IF data.kind = "None" THEN Failed("Panic", <<site, "unwrap on None">>)
        ELSE [kind |-> "Ok", addr |-> data.addr, bytes |-> data.bytes]

\* bytemuck::cast_slice of bytes to records of `size` bytes: it panics on a
\* misaligned address and on a length that is not a whole number of records
cast_slice(data, size, site) ==
    IF data.addr # 0
    THEN Failed("Panic", <<site, "cast_slice: TargetAlignmentGreaterAndInputNotAligned">>)
    ELSE IF data.bytes % size # 0
    THEN Failed("Panic", <<site, "cast_slice: OutputSliceWouldHaveSlop">>)
    ELSE [kind |-> "Ok", records |-> data.bytes \div size]

\* cast_slice(Self::get_data_for_accessor(a, buffers).unwrap()) at `site`
CastData(a, bufs, size, site) ==
    IF UnwrapData(a, bufs, site).kind # "Ok" THEN UnwrapData(a, bufs, site)
    ELSE cast_slice(UnwrapData(a, bufs, site), size, site)

\* model.rs 73-77: the index formats from_gltf accepts
SupportedIndex_Mut(t) == t \in {"U16", "U32", "U8"}
SupportedIndex(t) == t \in {"U16", "U32"}

IndexFormat(t) == IF t = "U16" THEN "Uint16" ELSE "Uint32"

\* model.rs 90-102: the attributes from_gltf unwraps
HasRequired(prim) == \A s \in RequiredAttrs : prim.attrs[s] # None

\* model.rs 104-125: the vertex data is cast, positions first, and combined
\* over the shorter of positions and normals
VerticesOf(prim, bufs) ==
    LET pos_data  == CastData(prim.attrs["Positions"][1], bufs, SizeOfVec3, "model.rs:108")
        norm_data == CastData(prim.attrs["Normals"][1], bufs, SizeOfVec3, "model.rs:110")
        tex_coord_data ==
            CastData(prim.attrs["TexCoords0"][1], bufs, SizeOfVec2, "model.rs:112")
    IN  IF pos_data.kind # "Ok" THEN pos_data
        ELSE IF norm_data.kind # "Ok" THEN norm_data
        ELSE IF tex_coord_data.kind # "Ok" THEN tex_coord_data
        ELSE IF tex_coord_data.records < Min(pos_data.records, norm_data.records)
        THEN Failed("Panic", <<"model.rs:117", "index out of bounds">>)
        ELSE Loaded("", FALSE)

\* model.rs 128-169: the morph buffer is built from the first two targets
MorphsOf(prim, bufs) ==
    IF Len(prim.morphs) >= 2
    THEN LET m0 == prim.morphs[1]
             m1 == prim.morphs[2]
         IN  IF m0.positions = None
             THEN Failed("Panic", <<"model.rs:134", "unwrap on None">>)
             ELSE IF m0.normals = None
             THEN Failed("Panic", <<"model.rs:135", "unwrap on None">>)
             ELSE IF m1.positions = None
             THEN Failed("Panic", <<"model.rs:137", "unwrap on None">>)
             ELSE IF m1.normals = None
             THEN Failed("Panic", <<"model.rs:138", "unwrap on None">>)
             ELSE LET mp0_data == CastData(m0.positions[1], bufs, SizeOfVec3, "model.rs:141")
                      mn0_data == CastData(m0.normals[1], bufs, SizeOfVec3, "model.rs:143")
                      mp1_data == CastData(m1.positions[1], bufs, SizeOfVec3, "model.rs:145")
                      mn1_data == CastData(m1.normals[1], bufs, SizeOfVec3, "model.rs:147")
                  IN  IF mp0_data.kind # "Ok" THEN mp0_data
                      ELSE IF mn0_data.kind # "Ok" THEN mn0_data
                      ELSE IF mp1_data.kind # "Ok" THEN mp1_data
                      ELSE IF mn1_data.kind # "Ok" THEN mn1_data
                      ELSE Loaded("", TRUE)
    ELSE Loaded("", FALSE)

(***************************************************************************)
(* Model::from_gltf (model.rs 53-178).  "Err" is an Err(anyhow) return,    *)
(* "Panic" an unwrap on None, a slice out of range, a rejected cast or an  *)
(* index out of bounds; neither produces a Model.                          *)
(***************************************************************************)
from_gltf(doc, bufs) ==
    IF Len(doc) = 0 THEN Failed("Err", <<"model.rs:65", "Model should have 1 mesh">>)
    ELSE LET mesh == doc[1]
         IN  IF Len(mesh) = 0
             THEN Failed("Err", <<"model.rs:69", "Mesh should have 1 primitive">>)
             ELSE LET prim == mesh[1]
                  IN  IF prim.indices = "None"
                      THEN Failed("Panic", <<"model.rs:72", "unwrap on None">>)
                      ELSE IF ~SupportedIndex(prim.indices)
                      THEN Failed("Err", <<"model.rs:76", "Unsupported index type">>)
                      ELSE IF UnwrapData(prim.index_acc, bufs, "model.rs:81").kind # "Ok"
                      THEN UnwrapData(prim.index_acc, bufs, "model.rs:81")
                      ELSE IF ~HasRequired(prim)
                      THEN Failed("Panic", <<"model.rs:100-102", "unwrap on None">>)
                      ELSE IF VerticesOf(prim, bufs).kind # "Ok"
                      THEN VerticesOf(prim, bufs)
                      ELSE IF MorphsOf(prim, bufs).kind # "Ok"
                      THEN MorphsOf(prim, bufs)
                      ELSE Loaded(IndexFormat(prim.indices),
                                  MorphsOf(prim, bufs).morph_buffer)

\* Model::load (model.rs 47-51)
Model_load(a, doc, bufs) ==
    IF a.file # "Ok" THEN Failed("Err", <<"model.rs:48", a.file>>)
    ELSE IF a.import # "Ok" THEN Failed("Err", <<"model.rs:49", "invalid glTF">>)
    ELSE from_gltf(doc, bufs)

IdleModel ==
    /\ asset = [file |-> "Ok", import |-> "Ok"]
    /\ document = <<>>
    /\ buffers = <<>>
    /\ loaded = NotLoaded

\* Model::load(device, queue, path)
Load ==
    /\ loaded = NotLoaded
    /\ loaded' = Model_load(asset, document, buffers)
    /\ UNCHANGED <<asset, document, buffers>>

(***************************************************************************)
(* Frame orchestrator (game.rs).                                           *)
(*                                                                         *)
(* Units: a navigation velocity of 0.5 is KeySpeed, time is in clock       *)
(* ticks, the mouse sensitivity is in tenths (0.1 is 1).                   *)
(***************************************************************************)
MaxTime  == 2   \* the clock stops advancing here
MaxAngle == 1   \* largest |yaw|, |pitch| explored
KeySpeed == 1   \* the velocity a pressed navigation key sets (0.5)
NumLayers == 32 \* the fur layer count passed to Fur::new
DefaultSensitivity == 1   \* GameConfig::default().mouse_sensitivity (0.1)

Sizes == {[width |-> 2, height |-> 2], [width |-> 4, height |-> 2]}
AcquireResults == {"Ok", "Outdated", "Lost", "Timeout", "OutOfMemory"}

\* the camera, at the eye position Game::new passes to Camera::look_at
Camera_look_at(width, height) ==
    [aspect |-> [width |-> width, height |-> height],
     moved_forward |-> 0, moved_right |-> 0, moved_up |-> 0,
     yaw |-> 0, pitch |-> 0]

Camera_resize(c, width, height) ==
    [c EXCEPT !.aspect = [width |-> width, height |-> height]]
Camera_walk_forward(c, delta) == [c EXCEPT !.moved_forward = @ + delta]
Camera_walk_right(c, delta)   == [c EXCEPT !.moved_right = @ + delta]
Camera_levitate_up(c, delta)  == [c EXCEPT !.moved_up = @ + delta]
Camera_rotate_right(c, delta) == [c EXCEPT !.yaw = @ + delta]
Camera_rotate_up(c, delta)    == [c EXCEPT !.pitch = @ + delta]

\* CameraBinder::bind / CameraBinding::update: the uniform mirrors the camera
CameraBinding_update(c) == c

\* Texture::depth_texture (texture.rs 8-26)
Texture_depth_texture(width, height) == [width |-> width, height |-> height]

(***************************************************************************)
(* Game::new (game.rs 62-163).  inner is window.inner_size() once the      *)
(* window system has answered the fullscreen / inner-size request.         *)
(***************************************************************************)
Game_new(config, inner) ==
    [running          |-> TRUE,
     surf_config      |-> [width |-> inner.width, height |-> inner.height],
     depth_texture    |-> Texture_depth_texture(inner.width, inner.height),
     camera           |-> Camera_look_at(inner.width, inner.height),
     camera_binding   |-> CameraBinding_update(Camera_look_at(inner.width, inner.height)),
     fur              |-> [num_layers |-> NumLayers],
     last_time        |-> None,
     mouse_sensitivity |-> config.mouse_sensitivity,
     lmb_pressed      |-> FALSE,
     forward |-> 0, backward |-> 0, left |-> 0, right |-> 0, up |-> 0, down |-> 0]

Window_new(config, inner) ==
    [visible |-> FALSE, cursor_visible |-> TRUE, fullscreen |-> config.fullscreen,
     inner_size |-> inner, redraw_requested |-> FALSE]

Surface_new(g) == [config |-> g.surf_config, live |-> 0]

\* a handler appends the calls it makes on the window, surface, device and queue
Emit(w, names) == [w EXCEPT !.calls = @ \o names]

\* Game::is_running (game.rs 319-321)
Game_is_running_Mut(g) == TRUE
Game_is_running(g) == g.running

\* Game::resize (game.rs 165-171)
Game_resize_MutStaleDepth(w, width, height) ==
    Emit([w EXCEPT !.game.surf_config = [width |-> width, height |-> height],
                   !.surface.config = [width |-> width, height |-> height],
                   !.game.camera = Camera_resize(@, width, height)],
         <<"configure", "camera.resize">>)
Game_resize_MutNewCamera(w, width, height) ==
    Emit([w EXCEPT !.game.surf_config = [width |-> width, height |-> height],
                   !.surface.config = [width |-> width, height |-> height],
                   !.game.camera = Camera_look_at(width, height),
                   !.game.depth_texture = Texture_depth_texture(width, height)],
         <<"configure", "camera.resize", "depth_texture">>)
Game_resize(w, width, height) ==
    Emit([w EXCEPT !.game.surf_config = [width |-> width, height |-> height],
                   !.surface.config = [width |-> width, height |-> height],
                   !.game.camera = Camera_resize(@, width, height),
                   !.game.depth_texture = Texture_depth_texture(width, height)],
         <<"configure", "camera.resize", "depth_texture">>)

\* the match arm of game.rs 182: the acquisition error render recovers from
IsOutdated_MutLost(res) == res = "Lost"
IsOutdated_MutAny(res) == res # "Ok"
IsOutdated(res) == res = "Outdated"

\* game.rs 195-199
Elapsed_Mut(last_time, current_time) ==
    IF last_time # None THEN current_time - last_time[1] ELSE current_time
Elapsed(last_time, current_time) ==
    IF last_time # None THEN current_time - last_time[1] ELSE 0

\* Fur::draw (fur.rs 57-68): the instance range of its draw_indexed call
Fur_draw(fur) == <<0, fur.num_layers>>

\* Game::render after a successful acquisition (game.rs 194-238)
RenderFrame_MutNoPresent(w, current_time) ==
    LET g    == w.game
        dt   == Elapsed(g.last_time, current_time)
        cam1 == Camera_walk_forward(g.camera, (g.forward - g.backward) * dt)
        cam2 == Camera_walk_right(cam1, (g.right - g.left) * dt)
        cam3 == Camera_levitate_up(cam2, (g.up - g.down) * dt)
    IN  Emit([w EXCEPT !.game.last_time = Some(current_time),
                       !.game.camera = cam3,
                       !.game.camera_binding = CameraBinding_update(cam3),
                       !.frame = Some([dt |-> dt,
                                       walk_forward |-> (g.forward - g.backward) * dt,
                                       walk_right   |-> (g.right - g.left) * dt,
                                       levitate_up  |-> (g.up - g.down) * dt,
                                       instances    |-> Fur_draw(g.fur)])],
             <<"walk_forward", "walk_right", "levitate_up", "camera_binding.update",
               "create_view", "create_command_encoder", "begin_render_pass",
               "fur.draw", "submit">>)
RenderFrame_MutStaleBinding(w, current_time) ==
    LET g    == w.game
        dt   == Elapsed(g.last_time, current_time)
        cam1 == Camera_walk_forward(g.camera, (g.forward - g.backward) * dt)
        cam2 == Camera_walk_right(cam1, (g.right - g.left) * dt)
        cam3 == Camera_levitate_up(cam2, (g.up - g.down) * dt)
    IN  Emit([w EXCEPT !.game.last_time = Some(current_time),
                       !.game.camera = cam3,
                       !.game.camera_binding = CameraBinding_update(g.camera),
                       !.surface.live = 0,
                       !.frame = Some([dt |-> dt,
                                       walk_forward |-> (g.forward - g.backward) * dt,
                                       walk_right   |-> (g.right - g.left) * dt,
                                       levitate_up  |-> (g.up - g.down) * dt,
                                       instances    |-> Fur_draw(g.fur)])],
             <<"camera_binding.update", "walk_forward", "walk_right", "levitate_up",
               "create_view", "create_command_encoder", "begin_render_pass",
               "fur.draw", "submit", "present">>)
RenderFrame(w, current_time) ==
    LET g    == w.game
        dt   == Elapsed(g.last_time, current_time)
        cam1 == Camera_walk_forward(g.camera, (g.forward - g.backward) * dt)
        cam2 == Camera_walk_right(cam1, (g.right - g.left) * dt)
        cam3 == Camera_levitate_up(cam2, (g.up - g.down) * dt)
    IN  Emit([w EXCEPT !.game.last_time = Some(current_time),
                       !.game.camera = cam3,
                       !.game.camera_binding = CameraBinding_update(cam3),
                       !.surface.live = 0,
                       !.frame = Some([dt |-> dt,
                                       walk_forward |-> (g.forward - g.backward) * dt,
                                       walk_right   |-> (g.right - g.left) * dt,
                                       levitate_up  |-> (g.up - g.down) * dt,
                                       instances    |-> Fur_draw(g.fur)])],
             <<"walk_forward", "walk_right", "levitate_up", "camera_binding.update",
               "create_view", "create_command_encoder", "begin_render_pass",
               "fur.draw", "submit", "present">>)

\* Game::render (game.rs 173-239); res is what get_current_texture returns
Game_render_MutNoRedraw(w, res, current_time) ==
    IF ~Game_is_running(w.game) THEN w
    ELSE LET w1 == Emit(w, <<"get_current_texture">>)
         IN  IF res = "Ok"
             THEN RenderFrame(Emit([w1 EXCEPT !.surface.live = 1,
                                              !.window.redraw_requested = TRUE],
                                   <<"request_redraw">>), current_time)
             ELSE IF IsOutdated(res)
             THEN Emit([w1 EXCEPT !.surface.config = w1.game.surf_config],
                       <<"configure">>)
             ELSE [w1 EXCEPT !.game.running = FALSE]
Game_render_MutStamp(w, res, current_time) ==
    IF ~Game_is_running(w.game) THEN w
    ELSE LET w1 == Emit([w EXCEPT !.window.redraw_requested = TRUE],
                        <<"request_redraw", "get_current_texture">>)
         IN  IF res = "Ok"
             THEN RenderFrame([w1 EXCEPT !.surface.live = 1], current_time)
             ELSE IF IsOutdated(res)
             THEN Emit([w1 EXCEPT !.surface.config = w1.game.surf_config,
                                  !.game.last_time = Some(current_time)],
                       <<"configure">>)
             ELSE [w1 EXCEPT !.game.running = FALSE]
Game_render(w, res, current_time) ==
    IF ~Game_is_running(w.game) THEN w
    ELSE LET w1 == Emit([w EXCEPT !.window.redraw_requested = TRUE],
                        <<"request_redraw", "get_current_texture">>)
         IN  IF res = "Ok"
             THEN RenderFrame([w1 EXCEPT !.surface.live = 1], current_time)
             ELSE IF IsOutdated(res)
             THEN Emit([w1 EXCEPT !.surface.config = w1.game.surf_config],
                       <<"configure">>)
             ELSE [w1 EXCEPT !.game.running = FALSE]

\* Game::toggle_fullscreen (game.rs 245-253)
Game_toggle_fullscreen(w) ==
    Emit([w EXCEPT !.window.fullscreen = ~@], <<"set_fullscreen">>)

\* Game::handle_keyboard (game.rs 299-317)
Game_handle_keyboard_Mut(w, key, pressed) ==
    LET v == IF pressed THEN KeySpeed ELSE 0
    IN  IF key = "Escape" /\ pressed THEN [w EXCEPT !.game.running = FALSE]
        ELSE IF key = "F11" /\ pressed THEN [w EXCEPT !.window.fullscreen = ~@]
        ELSE IF key = "KeyW" THEN [w EXCEPT !.game.forward = v]
        ELSE IF key = "KeyS" THEN [w EXCEPT !.game.backward = v]
        ELSE IF key = "KeyD" THEN [w EXCEPT !.game.right = v]
        ELSE IF key = "KeyA" THEN [w EXCEPT !.game.left = v]
        ELSE IF key = "Space" THEN [w EXCEPT !.game.up = v]
        ELSE IF key = "ShiftLeft" /\ pressed THEN [w EXCEPT !.game.down = v]
        ELSE w
Game_handle_keyboard(w, key, pressed) ==
    LET v == IF pressed THEN KeySpeed ELSE 0
    IN  IF key = "Escape" /\ pressed THEN [w EXCEPT !.game.running = FALSE]
        ELSE IF key = "F11" /\ pressed THEN Game_toggle_fullscreen(w)
        ELSE IF key = "KeyW" THEN [w EXCEPT !.game.forward = v]
        ELSE IF key = "KeyS" THEN [w EXCEPT !.game.backward = v]
        ELSE IF key = "KeyD" THEN [w EXCEPT !.game.right = v]
        ELSE IF key = "KeyA" THEN [w EXCEPT !.game.left = v]
        ELSE IF key = "Space" THEN [w EXCEPT !.game.up = v]
        ELSE IF key = "ShiftLeft" THEN [w EXCEPT !.game.down = v]
        ELSE w

\* Game::handle_mouse_button (game.rs 281-297)
Game_handle_mouse_button(w, button, pressed) ==
    IF button = "Left"
    THEN Emit([w EXCEPT !.game.lmb_pressed = pressed,
                        !.window.cursor_visible = ~pressed],
              <<"set_cursor_visible">>)
    ELSE w

\* Game::handle_axis (game.rs 270-279)
Game_handle_axis_Mut(w, axis, value) ==
    IF axis = 0
    THEN Emit([w EXCEPT !.game.camera =
                  Camera_rotate_right(@, value * w.game.mouse_sensitivity)],
              <<"rotate_right">>)
    ELSE IF axis = 1
    THEN Emit([w EXCEPT !.game.camera =
                  Camera_rotate_up(@, (-value) * w.game.mouse_sensitivity)],
              <<"rotate_up">>)
    ELSE w
Game_handle_axis(w, axis, value) ==
    IF w.game.lmb_pressed
    THEN IF axis = 0
         THEN Emit([w EXCEPT !.game.camera =
                       Camera_rotate_right(@, value * w.game.mouse_sensitivity)],
                   <<"rotate_right">>)
         ELSE IF axis = 1
         THEN Emit([w EXCEPT !.game.camera =
                       Camera_rotate_up(@, (-value) * w.game.mouse_sensitivity)],
                   <<"rotate_up">>)
         ELSE w
    ELSE w

(***************************************************************************)
(* The handlers as steps: main.rs 25-64 dispatches one window event to one *)
(* handler.                                                                *)
(***************************************************************************)
World == [game |-> game, window |-> window, surface |-> surface, calls |-> <<>>,
          frame |-> None]

Becomes(w, name, res) ==
    /\ game' = w.game
    /\ window' = w.window
    /\ surface' = w.surface
    /\ calls' = w.calls
    /\ op' = name
    /\ acq' = res
    /\ frame' = w.frame

GameInit(configs, sizes) ==
    /\ \E config \in configs, inner \in sizes :
          /\ game = Game_new(config, inner)
          /\ window = Window_new(config, inner)
    /\ surface = Surface_new(game)
    /\ now = 0
    /\ calls = <<>>
    /\ op = "new"
    /\ acq = "none"
    /\ frame = None
    /\ held = {}
    /\ look = FALSE
    /\ drawn_at = None

\* the keys Game::handle_keyboard maps to a navigation velocity
NavKeys == {"KeyW", "KeyS", "KeyD", "KeyA", "Space", "ShiftLeft"}

\* game.render() on the world w (main.rs 45)
RenderOn(w, res) ==
    /\ Becomes(Game_render(w, res, now), "render",
               IF Game_is_running(game) THEN res ELSE "none")
    /\ drawn_at' = IF game.running /\ res = "Ok" THEN Some(now) ELSE drawn_at
    /\ UNCHANGED <<now, held, look>>

\* WindowEvent::RedrawRequested (main.rs 44-46)
Render(res) == RenderOn(World, res)

\* WindowEvent::Resized (main.rs 34)
Resize(size) ==
    /\ Becomes([Game_resize(World, size.width, size.height)
                   EXCEPT !.window.inner_size = size], "resize", "none")
    /\ UNCHANGED <<now, held, look, drawn_at>>

\* WindowEvent::KeyboardInput (main.rs 35-43)
HandleKeyboard(key, pressed) ==
    /\ Becomes(Game_handle_keyboard(World, key, pressed), "handle_keyboard", "none")
    /\ held' = IF key \notin NavKeys THEN held
               ELSE IF pressed THEN held \cup {key} ELSE held \ {key}
    /\ UNCHANGED <<now, look, drawn_at>>

\* WindowEvent::MouseInput (main.rs 47-49)
HandleMouseButton(button, pressed) ==
    /\ Becomes(Game_handle_mouse_button(World, button, pressed),
               "handle_mouse_button", "none")
    /\ look' = IF button = "Left" THEN pressed ELSE look
    /\ UNCHANGED <<now, held, drawn_at>>

\* DeviceEvent::Motion (main.rs 55); rotations beyond MaxAngle are not explored
HandleAxis(axis, value) ==
    LET w == Game_handle_axis(World, axis, value)
    IN  /\ w.game.camera.yaw \in -MaxAngle..MaxAngle
        /\ w.game.camera.pitch \in -MaxAngle..MaxAngle
        /\ Becomes(w, "handle_axis", "none")
        /\ UNCHANGED <<now, held, look, drawn_at>>

\* time passes between two events, up to the clock reading `limit`
TickUntil(limit) ==
    /\ now < limit
    /\ now' = now + 1
    /\ op' = "tick"
    /\ acq' = "none"
    /\ calls' = <<>>
    /\ frame' = None
    /\ UNCHANGED <<game, window, surface, held, look, drawn_at>>

Tick == TickUntil(MaxTime)

IdleGame ==
    GameInit({[fullscreen |-> FALSE, mouse_sensitivity |-> DefaultSensitivity]},
             {[width |-> 2, height |-> 2]})

(***************************************************************************)
(* The event loop (main.rs 25-64).  target.exit() asks the loop to stop;   *)
(* the window system may still dispatch events before it sends             *)
(* LoopExiting, after which the closure is not called again.  A redraw     *)
(* request is pending from window.request_redraw() until the next          *)
(* RedrawRequested is dispatched.                                          *)
(***************************************************************************)
IdleLoop ==
    /\ loop = "running"
    /\ saved = <<>>
    /\ startup = None
    /\ monitor = None
    /\ attempts = 0

\* Game::show (game.rs 241-243)
Game_show(w) == Emit([w EXCEPT !.window.visible = TRUE], <<"set_visible">>)

\* Game::export_config (game.rs 259-268)
Game_export_config_Mut(w, mon) ==
    [fullscreen        |-> w.window.fullscreen,
     monitor           |-> mon,
     mouse_sensitivity |-> DefaultSensitivity,
     width             |-> w.window.inner_size.width,
     height            |-> w.window.inner_size.height]
Game_export_config(w, mon) ==
    [fullscreen        |-> w.window.fullscreen,
     monitor           |-> mon,
     mouse_sensitivity |-> w.game.mouse_sensitivity,
     width             |-> w.window.inner_size.width,
     height            |-> w.window.inner_size.height]

\* the closure is called for an event
Dispatching == loop # "exited"

\* Event::NewEvents (main.rs 26)
NewEvents ==
    /\ Dispatching
    /\ Becomes(Game_show(World), "new_events", "none")
    /\ UNCHANGED <<now, held, look, drawn_at, loopVars>>

\* Event::AboutToWait (main.rs 27-31)
AboutToWait ==
    /\ Dispatching
    /\ Becomes(World, "about_to_wait", "none")
    /\ loop' = IF ~Game_is_running(game) THEN "exiting" ELSE loop
    /\ UNCHANGED <<now, held, look, drawn_at, saved, startup, monitor, attempts>>

\* WindowEvent::CloseRequested (main.rs 33)
CloseRequested ==
    /\ Dispatching
    /\ Becomes(World, "close_requested", "none")
    /\ loop' = "exiting"
    /\ UNCHANGED <<now, held, look, drawn_at, saved, startup, monitor, attempts>>

\* WindowEvent::RedrawRequested (main.rs 44-46), which takes the pending
\* redraw request with it
RedrawRequested(res) ==
    /\ Dispatching
    /\ RenderOn([World EXCEPT !.window.redraw_requested = FALSE], res)
    /\ attempts' = IF Game_is_running(game) THEN 1 - attempts ELSE attempts
    /\ UNCHANGED <<loop, saved, startup, monitor>>

\* the RedrawRequested that window.request_redraw() asked for
RequestedRedraw(results) ==
    /\ window.redraw_requested
    /\ \E res \in results : RedrawRequested(res)

\* Event::LoopExiting (main.rs 58-62)
LoopExiting ==
    /\ loop = "exiting"
    /\ Becomes(World, "loop_exiting", "none")
    /\ saved' = Append(saved, Game_export_config(World, monitor))
    /\ loop' = "exited"
    /\ UNCHANGED <<now, held, look, drawn_at, startup, monitor, attempts>>

(***************************************************************************)
(* Spec: the frame orchestrator under render, resize, keyboard, mouse      *)
(* button, pointer motion and the passing of time.                         *)
(***************************************************************************)
FrameConfigs == {[fullscreen |-> f, mouse_sensitivity |-> DefaultSensitivity] :
                    f \in BOOLEAN}
FrameKeys    == {"Escape", "F11", "KeyW", "Tab"}
FrameButtons == {"Left", "Right"}
FrameAxes    == {0, 1, 2}
FrameMotions == {1}

Init ==
    /\ GameInit(FrameConfigs, Sizes)
    /\ IdleBuffer
    /\ IdleDebug
    /\ cap0 = 0
    /\ StageInit(0, cb.buffer)
    /\ IdleModel
    /\ IdleLoop

Next ==
    \/ \E res \in AcquireResults : Render(res) /\ UNCHANGED <<bufVars, debugVars, stageVars, modelVars, loopVars>>
    \/ \E size \in Sizes : Resize(size) /\ UNCHANGED <<bufVars, debugVars, stageVars, modelVars, loopVars>>
    \/ \E key \in FrameKeys, pressed \in BOOLEAN :
          HandleKeyboard(key, pressed) /\ UNCHANGED <<bufVars, debugVars, stageVars, modelVars, loopVars>>
    \/ \E button \in FrameButtons, pressed \in BOOLEAN :
          HandleMouseButton(button, pressed) /\ UNCHANGED <<bufVars, debugVars, stageVars, modelVars, loopVars>>
    \/ \E axis \in FrameAxes, value \in FrameMotions :
          HandleAxis(axis, value) /\ UNCHANGED <<bufVars, debugVars, stageVars, modelVars, loopVars>>
    \/ Tick /\ UNCHANGED <<bufVars, debugVars, stageVars, modelVars, loopVars>>

Spec == Init /\ [][Next]_vars

(***************************************************************************)
(* SpecBuffer: one CpuBuffer<T> under clear, batch, push and close.        *)
(***************************************************************************)
InitBuffer ==
    /\ BufferInit
    /\ IdleDebug
    /\ IdleGame
    /\ IdleModel
    /\ IdleLoop

NextBuffer ==
    \/ BufClear /\ UNCHANGED <<debugVars, gameVars, modelVars, loopVars>>
    \/ BufBatch /\ UNCHANGED <<debugVars, gameVars, modelVars, loopVars>>
    \/ \E value \in Values : BufPush(value) /\ UNCHANGED <<debugVars, gameVars, modelVars, loopVars>>
    \/ BufClose /\ UNCHANGED <<debugVars, gameVars, modelVars, loopVars>>

SpecBuffer == InitBuffer /\ [][NextBuffer]_vars

(***************************************************************************)
(* SpecDebug: the DebugPipeline under clear, batch, push_vertex and close. *)
(***************************************************************************)
InitDebug ==
    /\ DebugInit
    /\ IdleBuffer
    /\ IdleGame
    /\ IdleModel
    /\ IdleLoop

NextDebug ==
    \/ DbgClear /\ UNCHANGED <<bufVars, gameVars, modelVars, loopVars>>
    \/ DbgBatch /\ UNCHANGED <<bufVars, gameVars, modelVars, loopVars>>
    \/ \E vertex \in Values : DbgPushVertex(vertex) /\ UNCHANGED <<bufVars, gameVars, modelVars, loopVars>>
    \/ DbgClose /\ UNCHANGED <<bufVars, gameVars, modelVars, loopVars>>

SpecDebug == InitDebug /\ [][NextDebug]_vars

(***************************************************************************)
(* SpecModel: Model::from_gltf applied to each document of Documents.      *)
(***************************************************************************)
InitModel ==
    /\ asset \in Assets
    /\ document \in Documents
    /\ buffers \in BufferLists
    /\ loaded = NotLoaded
    /\ IdleBuffer
    /\ IdleDebug
    /\ IdleGame
    /\ IdleLoop
    /\ cap0 = 0
    /\ StageInit(0, cb.buffer)

NextModel == Load /\ UNCHANGED <<bufVars, debugVars, stageVars, gameVars, loopVars>>

SpecModel == InitModel /\ [][NextModel]_vars

(***************************************************************************)
(* SpecNav: the frame orchestrator under all six navigation keys, render   *)
(* and the passing of time.                                                *)
(***************************************************************************)
NavMaxTime == 1   \* the clock stops advancing here
NavResults == {"Ok", "Outdated"}

InitNav ==
    /\ IdleGame
    /\ IdleBuffer
    /\ IdleDebug
    /\ cap0 = 0
    /\ StageInit(0, cb.buffer)
    /\ IdleModel
    /\ IdleLoop

NextNav ==
    \/ \E res \in NavResults : Render(res) /\ UNCHANGED <<bufVars, debugVars, stageVars, modelVars, loopVars>>
    \/ \E key \in NavKeys, pressed \in BOOLEAN :
          HandleKeyboard(key, pressed) /\ UNCHANGED <<bufVars, debugVars, stageVars, modelVars, loopVars>>
    \/ TickUntil(NavMaxTime) /\ UNCHANGED <<bufVars, debugVars, stageVars, modelVars, loopVars>>

SpecNav == InitNav /\ [][NextNav]_vars

(***************************************************************************)
(* SpecLoop: the event loop of main with the events that start, resize,    *)
(* redraw and stop the game.  SpecLoopFair adds what the window system     *)
(* guarantees: AboutToWait and LoopExiting are sent, and a requested       *)
(* redraw is dispatched.                                                   *)
(***************************************************************************)
LoopConfigs  == {[fullscreen |-> f, mouse_sensitivity |-> m] :
                    f \in BOOLEAN, m \in {DefaultSensitivity, DefaultSensitivity + 1}}
LoopKeys     == {"Escape", "F11"}
LoopResults  == {"Ok", "Outdated", "Timeout"}
LoopMonitors == {None, Some("HDMI-1")}

InitLoop ==
    /\ \E config \in LoopConfigs :
          /\ GameInit({config}, Sizes)
          /\ startup = Some(config)
    /\ loop = "running"
    /\ saved = <<>>
    /\ monitor \in LoopMonitors
    /\ attempts = 0
    /\ IdleBuffer
    /\ IdleDebug
    /\ cap0 = 0
    /\ StageInit(0, cb.buffer)
    /\ IdleModel

NextLoop ==
    \/ NewEvents /\ UNCHANGED <<bufVars, debugVars, stageVars, modelVars>>
    \/ AboutToWait /\ UNCHANGED <<bufVars, debugVars, stageVars, modelVars>>
    \/ CloseRequested /\ UNCHANGED <<bufVars, debugVars, stageVars, modelVars>>
    \/ \E size \in Sizes :
          Dispatching /\ Resize(size)
             /\ UNCHANGED <<bufVars, debugVars, stageVars, modelVars, loopVars>>
    \/ \E key \in LoopKeys, pressed \in BOOLEAN :
          Dispatching /\ HandleKeyboard(key, pressed)
             /\ UNCHANGED <<bufVars, debugVars, stageVars, modelVars, loopVars>>
    \/ \E res \in LoopResults :
          RedrawRequested(res) /\ UNCHANGED <<bufVars, debugVars, stageVars, modelVars>>
    \/ LoopExiting /\ UNCHANGED <<bufVars, debugVars, stageVars, modelVars>>

SpecLoop == InitLoop /\ [][NextLoop]_vars

SpecLoopFair ==
    /\ SpecLoop
    /\ WF_vars(AboutToWait /\ UNCHANGED <<bufVars, debugVars, stageVars, modelVars>>)
    /\ WF_vars(LoopExiting /\ UNCHANGED <<bufVars, debugVars, stageVars, modelVars>>)
    /\ WF_vars(RequestedRedraw(LoopResults)
                  /\ UNCHANGED <<bufVars, debugVars, stageVars, modelVars>>)

(***************************************************************************)
(* Properties.                                                             *)
(***************************************************************************)
Has(seq, name) == \E i \in 1..Len(seq) : seq[i] = name
Count(seq, name) == Cardinality({i \in 1..Len(seq) : seq[i] = name})

\* the calls of a frame that is drawn
DrawCalls == {"camera_binding.update", "fur.draw", "submit", "present"}
SkipCalls == <<"request_redraw", "get_current_texture", "configure">>

\* the acquisition errors the specification does not call transient
NonTransient == {"Timeout", "OutOfMemory"}

\* C1: a render call that is made while Running and whose acquisition
\* returns Outdated leaves running true, reconfigures the surface exactly once
\* against the unchanged current size, and makes no camera-binding update,
\* draw, submit or present.
C1_OutdatedSkipsFrame ==
    [][(op' = "render" /\ acq' = "Outdated") =>
          /\ game.running /\ game'.running
          /\ game'.surf_config = game.surf_config
          /\ surface'.config = game.surf_config
          /\ Count(calls', "configure") = 1
          /\ \A c \in DrawCalls : ~Has(calls', c)]_vars

C1_Witness ==
    /\ op = "render" /\ acq = "Outdated"
    /\ game.running
    /\ calls = SkipCalls

\* C2: a render call made while Running whose acquisition fails with an
\* error that is not transient sets running to false and performs no surface
\* reconfiguration, camera-binding update, draw, submit or present.
C2_FatalStops ==
    [][(op' = "render" /\ acq' \in NonTransient) =>
          /\ game.running /\ ~game'.running
          /\ surface' = surface
          /\ ~Has(calls', "configure")
          /\ \A c \in DrawCalls : ~Has(calls', c)]_vars

C2_Witness ==
    /\ op = "render" /\ acq \in NonTransient
    /\ ~game.running
    /\ calls = <<"request_redraw", "get_current_texture">>

\* C3: a render call whose acquisition fails with Lost is handled like
\* Outdated: the surface is reconfigured, the frame is skipped and running
\* stays true.
C3_LostIsRecoverable ==
    (op = "render" /\ acq = "Lost") => (game.running /\ calls = SkipCalls)

\* C4: once running is false no render, resize, keyboard, mouse-button or
\* pointer-motion event sets it back to true, and no later render call
\* acquires a frame target, draws, submits or presents.
C4_StoppedIsTerminal ==
    [][~game.running =>
          /\ ~game'.running
          /\ ~Has(calls', "get_current_texture")
          /\ \A c \in DrawCalls : ~Has(calls', c)]_vars

C4_Witness ==
    /\ ~game.running
    /\ op = "render" /\ acq = "none" /\ calls = <<>>
    /\ game.last_time # None

\* the GPU records [0, len) equal the host sequence
Mirrored(b) ==
    /\ Len(b.data) <= Len(b.buffer.mem)
    /\ \A i \in 1..Len(b.data) : b.buffer.mem[i] = b.data[i]

\* C5: after every closed batch the GPU records [0, len) equal the host
\* sequence, whichever branch the close took.
C5_GpuMirrorsHost == (bop = "close") => Mirrored(cb)

C5_Witness ==
    /\ bop = "close" /\ closed >= 2
    /\ cur_batch.start > 0
    /\ Len(gpu_calls) = 1 /\ gpu_calls[1].call = "create_buffer_init"
    /\ Len(cb.data) = 3

\* C6: a batch opened on an empty host sequence that pushes K records, K no
\* more than the GPU capacity, leaves the host sequence equal to the K records,
\* the GPU records [0, K) equal to them, and the GPU buffer the same
\* allocation with the same capacity; for the first batch of a buffer created
\* with capacity C that is the buffer with_capacity created, of capacity C.
C6_WithinCapacity ==
    /\ (bop = "close" /\ cur_batch.start = 0
            /\ Len(pushed) * elem_size <= prev_buf.size) =>
          /\ cb.data = pushed
          /\ Mirrored(cb)
          /\ cb.buffer.id = prev_buf.id
          /\ cb.buffer.size = prev_buf.size
          /\ \A i \in 1..Len(gpu_calls) : gpu_calls[i].call # "create_buffer_init"
    /\ (bop = "close" /\ closed = 1 /\ Len(pushed) <= cap0) =>
          /\ Len(cb.data) = Len(pushed)
          /\ cb.buffer.id = 0
          /\ cb.buffer.size = cap0 * elem_size
          /\ device.created = 1

C6_Witness ==
    /\ bop = "close" /\ closed = 1
    /\ cap0 > 0 /\ Len(pushed) = cap0
    /\ cb.data = pushed

\* C7: a batch whose close finds more host records than the GPU capacity
\* makes the device create exactly one buffer, at the close and not during the
\* pushes, sized to exactly the host sequence and holding it; for the first
\* batch of a buffer created with capacity C that pushes K > C records the new
\* capacity is exactly K records.
C7_GrowsExactly ==
    /\ (bop # "close") => (cb.buffer = prev_buf /\ gpu_calls = <<>>)
    /\ (closed = 0) => (device.created = 1 /\ cb.buffer.id = 0)
    /\ (bop = "close" /\ Len(cb.data) * elem_size > prev_buf.size) =>
          /\ gpu_calls = <<[call |-> "create_buffer_init", offset |-> 0,
                            contents |-> cb.data]>>
          /\ cb.buffer.id # prev_buf.id
          /\ cb.buffer.size = Len(cb.data) * elem_size
          /\ cb.buffer.mem = cb.data
    /\ (bop = "close" /\ closed = 1 /\ Len(pushed) > cap0) =>
          /\ device.created = 2
          /\ cb.buffer.size = Len(pushed) * elem_size
          /\ cb.buffer.mem = pushed
          /\ cb.data = pushed

C7_Witness ==
    /\ bop = "close" /\ closed = 1
    /\ cap0 > 0 /\ Len(pushed) > cap0
    /\ cb.buffer.size = Len(pushed) * elem_size

\* C8: a batch opened at offset a > 0 whose records still fit the GPU
\* capacity issues exactly one write, of the records pushed in this batch at
\* byte offset a * size_of(T), keeps the allocation and leaves the GPU records
\* [0, a) as they were.
C8_PartialWrite ==
    (bop = "close" /\ cur_batch.start > 0
        /\ Len(cb.data) * elem_size <= prev_buf.size) =>
        /\ gpu_calls = <<[call |-> "write_buffer",
                          offset |-> cur_batch.start * elem_size,
                          contents |-> pushed]>>
        /\ cb.buffer.id = prev_buf.id
        /\ cb.buffer.size = prev_buf.size
        /\ \A i \in 1..cur_batch.start : cb.buffer.mem[i] = prev_buf.mem[i]

C8_Witness ==
    /\ bop = "close" /\ closed = 2
    /\ cur_batch.start > 0 /\ Len(pushed) > 0
    /\ Len(gpu_calls) = 1 /\ gpu_calls[1].call = "write_buffer"
    /\ gpu_calls[1].offset = cur_batch.start * elem_size

\* C9 as stated: a batch closed with zero pushes issues no call to the
\* device or the queue and keeps the allocation, whether the host sequence is
\* empty or not.
C9_NoCallAtAll ==
    (bop = "close" /\ pushed = <<>>) => (gpu_calls = <<>> /\ cb.buffer = prev_buf)

\* C9 amended: a batch closed with zero pushes transfers no record and keeps
\* the allocation and its content; it issues no call when the host sequence is
\* empty, and one write_buffer call with an empty payload at the batch's start
\* offset when the host sequence holds records.
C9_NoBytesMoved ==
    (bop = "close" /\ pushed = <<>>) =>
        /\ cb.buffer = prev_buf
        /\ gpu_calls = IF cb.data = <<>> THEN <<>>
                       ELSE <<[call |-> "write_buffer",
                               offset |-> cur_batch.start * elem_size,
                               contents |-> <<>>]>>

C9_Witness ==
    /\ bop = "close" /\ pushed = <<>>
    /\ cb.data # <<>>
    /\ Len(gpu_calls) = 1 /\ gpu_calls[1].contents = <<>>

\* C10: within one clear-to-draw interval, over any number of DebugBatch
\* transactions, the index sequence is [0, 1, ..., n-1]: the i-th index is the
\* position of the i-th pushed vertex.
C10_IndicesCountUp ==
    \A i \in 1..Len(pipeline.index_buffer.data) :
        pipeline.index_buffer.data[i] = i - 1


\* the sequence [0, 1, ..., n-1]
CountUp(n) == [i \in 1..n |-> i - 1]

\* C11: a single batch opened on a freshly created or cleared debug pipeline
\* yields the index sequence [0..n-1] beside the n vertices in push order, and
\* clear empties both sequences, so the next pushed vertex gets index 0.
C11_SingleBatchIndices ==
    /\ (bop = "clear") =>
          /\ pipeline.vertex_buffer.data = <<>>
          /\ pipeline.index_buffer.data = <<>>
    /\ (bop \in {"batch", "push_vertex", "close"}
            /\ dbatch.vertices.start = 0 /\ dbatch.indices.start = 0) =>
          /\ pipeline.vertex_buffer.data = pushed
          /\ pipeline.index_buffer.data = CountUp(Len(pushed))

\* an earlier batch left a vertex on the GPU, the pipeline was cleared, and
\* the batch now open has pushed one vertex, which got index 0
C11_Witness ==
    /\ closed >= 1 /\ open
    /\ pipeline.vertex_buffer.buffer.mem[1] # Zero
    /\ dbatch.vertices.start = 0
    /\ Len(pushed) = 1
    /\ pipeline.index_buffer.data = <<0>>

\* C17: the GPU capacity never decreases: clear keeps the allocation and its
\* capacity, and a batch close keeps the allocation or replaces it with a
\* strictly larger one.
C17_CapacityMonotone ==
    /\ cb.buffer.size >= prev_buf.size
    /\ (bop = "clear") => (cb.buffer = prev_buf /\ cb.data = <<>>)
    /\ (bop = "close") =>
          \/ (cb.buffer.id = prev_buf.id /\ cb.buffer.size = prev_buf.size)
          \/ (cb.buffer.id # prev_buf.id /\ cb.buffer.size > prev_buf.size)

\* a clear after the buffer has grown beyond its initial capacity
C17_Witness ==
    /\ bop = "clear"
    /\ cb.buffer.id # 0
    /\ cb.buffer.size > cap0 * elem_size
    /\ cb.data = <<>>


\* the asset has more than one mesh, or its first mesh more than one primitive
Ambiguous(doc) == Len(doc) > 1 \/ (Len(doc) >= 1 /\ Len(doc[1]) > 1)

\* C12: from_gltf produces no Model for an asset with more than one mesh or
\* a mesh with more than one primitive.
C12_RejectsMultiple ==
    (loaded # NotLoaded /\ Ambiguous(document)) => loaded.kind # "Ok"

\* C13: from_gltf produces no Model when the asset has no mesh, the mesh no
\* primitive, the primitive lacks positions, normals or texture coordinates,
\* or its index component type is neither 16-bit nor 32-bit unsigned; the
\* missing mesh, the missing primitive and the unsupported index type are
\* returned as errors.
C13_RejectsUnusable ==
    /\ (loaded # NotLoaded /\
          (\/ Len(document) = 0
           \/ Len(document[1]) = 0
           \/ \E a \in RequiredAttrs : document[1][1].attrs[a] = None
           \/ document[1][1].indices \notin {"U16", "U32"})) =>
          loaded.kind \in {"Err", "Panic"}
    /\ (loaded # NotLoaded /\
          (\/ Len(document) = 0
           \/ Len(document[1]) = 0
           \/ document[1][1].indices \in {"U8", "I16", "F32"})) =>
          loaded.kind = "Err"

C13_Witness ==
    /\ loaded.kind = "Panic"
    /\ Len(document) = 1 /\ Len(document[1]) = 1
    /\ asset = [file |-> "Ok", import |-> "Ok"]
    /\ document[1][1].indices = "U16"
    /\ get_data_for_accessor(document[1][1].index_acc, buffers).kind = "Some"
    /\ document[1][1].attrs["TexCoords0"] = None

\* the calls of one drawn frame, in order
FrameCallSeq ==
    <<"request_redraw", "get_current_texture",
      "walk_forward", "walk_right", "levitate_up", "camera_binding.update",
      "create_view", "create_command_encoder", "begin_render_pass",
      "fur.draw", "submit", "present">>

CameraMutations ==
    {"walk_forward", "walk_right", "levitate_up", "rotate_right", "rotate_up",
     "camera.resize"}

Pos(seq, name) == CHOOSE i \in 1..Len(seq) : seq[i] = name

\* C14: in every drawn frame the navigation calls precede the camera-binding
\* update, which precedes the draw, the submit and the present in that order;
\* no camera mutation lies between the binding update and the draw, and the
\* binding the draw reads mirrors the camera's latest state.
C14_FrameOrder ==
    (op = "render" /\ acq = "Ok") =>
        /\ \A c \in {"walk_forward", "walk_right", "levitate_up",
                     "camera_binding.update", "fur.draw", "submit", "present"} :
              Count(calls, c) = 1
        /\ Pos(calls, "walk_forward") < Pos(calls, "camera_binding.update")
        /\ Pos(calls, "walk_right") < Pos(calls, "camera_binding.update")
        /\ Pos(calls, "levitate_up") < Pos(calls, "camera_binding.update")
        /\ Pos(calls, "camera_binding.update") < Pos(calls, "fur.draw")
        /\ Pos(calls, "fur.draw") < Pos(calls, "submit")
        /\ Pos(calls, "submit") < Pos(calls, "present")
        /\ \A i \in 1..Len(calls) :
              (Pos(calls, "camera_binding.update") < i /\ i < Pos(calls, "fur.draw"))
                 => calls[i] \notin CameraMutations
        /\ game.camera_binding = CameraBinding_update(game.camera)

\* a drawn frame that moved the camera after mouse look had turned it
C14_Witness ==
    /\ op = "render" /\ acq = "Ok"
    /\ calls = FrameCallSeq
    /\ frame[1].walk_forward # 0
    /\ game.camera.yaw # 0
    /\ game.camera_binding = game.camera

\* C15: in every state the depth target has the surface configuration's
\* width and height, and the surface is configured with them; a resize(w, h)
\* sets all three to (w, h) and hands (w, h) to the camera.
C15_DepthMatchesSurface ==
    /\ game.depth_texture =
          Texture_depth_texture(game.surf_config.width, game.surf_config.height)
    /\ surface.config = game.surf_config
    /\ (op = "resize") =>
          /\ game.surf_config = window.inner_size
          /\ calls = <<"configure", "camera.resize", "depth_texture">>

\* a resize to another size before the first frame
C15_Witness ==
    /\ op = "resize"
    /\ game.last_time = None
    /\ game.depth_texture = [width |-> 4, height |-> 2]
    /\ game.camera.aspect = [width |-> 4, height |-> 2]

\* the camera without its projection aspect
Pose(c) == <<c.moved_forward, c.moved_right, c.moved_up, c.yaw, c.pitch>>

\* C16: a resize leaves the camera's position and orientation as they were
\* and sets its aspect from the new size.
C16_ResizeKeepsPose ==
    [][(op' = "resize") =>
          /\ Pose(game'.camera) = Pose(game.camera)
          /\ game'.camera.aspect = game'.surf_config]_vars

C16_Witness ==
    /\ op = "resize"
    /\ game.camera.moved_forward # 0
    /\ game.camera.yaw # 0
    /\ game.camera.aspect = [width |-> 4, height |-> 2]

\* C18: a drawn frame scales navigation by zero when no frame was drawn
\* before, otherwise by the time since the last drawn frame; a render call that
\* draws nothing leaves the reference timestamp as it was.
C18_ElapsedSinceLastFrame ==
    [][(op' = "render") =>
          IF acq' = "Ok"
          THEN /\ frame' # None
               /\ frame'[1].dt = IF drawn_at = None THEN 0 ELSE now - drawn_at[1]
               /\ game'.last_time = Some(now)
          ELSE /\ frame' = None
               /\ game'.last_time = game.last_time
               /\ game'.last_time = drawn_at]_vars

\* a drawn frame two ticks after the frame drawn before it
C18_Witness ==
    /\ op = "render" /\ acq = "Ok"
    /\ frame[1].dt = 2
    /\ game.last_time = Some(now)

In(key) == IF key \in held THEN KeySpeed ELSE 0

\* C19: the delta a drawn frame passes to each camera axis is (positive
\* input - negative input) * dt, the inputs being those of the keys whose most
\* recent event is a press: two opposing held keys give zero on their axis, and
\* with every key released all three deltas are zero.
C19_SignedDeltas ==
    (op = "render" /\ acq = "Ok") =>
        LET f == frame[1]
        IN  /\ f.walk_forward = (In("KeyW") - In("KeyS")) * f.dt
            /\ f.walk_right   = (In("KeyD") - In("KeyA")) * f.dt
            /\ f.levitate_up  = (In("Space") - In("ShiftLeft")) * f.dt
            /\ ({"KeyW", "KeyS"} \subseteq held) => f.walk_forward = 0
            /\ ({"KeyD", "KeyA"} \subseteq held) => f.walk_right = 0
            /\ ({"Space", "ShiftLeft"} \subseteq held) => f.levitate_up = 0
            /\ (held = {}) =>
                  (f.walk_forward = 0 /\ f.walk_right = 0 /\ f.levitate_up = 0)

\* both forward keys held cancel while the right key alone moves the camera
C19_Witness ==
    /\ op = "render" /\ acq = "Ok"
    /\ frame[1].dt > 0
    /\ held = {"KeyW", "KeyS", "KeyD", "ShiftLeft"}
    /\ frame[1].walk_forward = 0
    /\ frame[1].walk_right > 0
    /\ frame[1].levitate_up < 0

\* C20: look mode (lmb_pressed) is on exactly from a left-button press to the
\* next left-button release, the cursor is hidden exactly while it is on, and
\* only a pointer-motion event received while it is on changes the camera's
\* yaw or pitch; a pointer-motion event received while it is off leaves the
\* camera as it was.
C20_LookMode ==
    /\ [](game.lmb_pressed = look /\ window.cursor_visible = ~look)
    /\ [][/\ (op' = "handle_axis" /\ ~look) => game'.camera = game.camera
          /\ (game'.camera.yaw # game.camera.yaw
                \/ game'.camera.pitch # game.camera.pitch)
                => (look /\ op' = "handle_axis")]_vars

C20_Witness ==
    /\ op = "handle_axis"
    /\ look /\ game.lmb_pressed
    /\ ~window.cursor_visible
    /\ calls = <<"rotate_up">>
    /\ game.camera.pitch # 0


\* C24: after any sequence of batch, push_vertex, batch close and clear on the
\* debug pipeline the vertex sequence and the index sequence are equally long,
\* and every index the draw reads is the position of a vertex in the vertex
\* sequence.
C24_EqualLengths ==
    /\ Len(pipeline.vertex_buffer.data) = Len(pipeline.index_buffer.data)
    /\ \A i \in 1..Len(pipeline.index_buffer.data) :
          pipeline.index_buffer.data[i] < Len(pipeline.vertex_buffer.data)
    /\ CpuBuffer_len(pipeline.index_buffer) = Len(pipeline.vertex_buffer.data)

\* a second batch closed after a clear and a first batch, three vertices in all
C24_Witness ==
    /\ ~open /\ closed >= 2
    /\ dbatch.vertices.start > 0
    /\ Len(pipeline.vertex_buffer.data) = 3
    /\ Len(pipeline.index_buffer.data) = 3


\* the calls that consume an acquired frame target
ConsumingCalls ==
    {"camera_binding.update", "begin_render_pass", "fur.draw", "submit", "present"}

\* C21: a render call that acquires a frame target makes exactly one
\* acquisition, one camera-binding update, one render pass, one indexed draw
\* over the instances [0, N), N being the layer count fixed at construction, one
\* submit and one present; a render call that acquires none makes none of
\* these; no handler returns with a frame target still live.
C21_FrameConsumed ==
    /\ surface.live = 0
    /\ game.fur.num_layers = NumLayers
    /\ (op = "render" /\ acq = "Ok") =>
          /\ Count(calls, "get_current_texture") = 1
          /\ \A c \in ConsumingCalls : Count(calls, c) = 1
          /\ frame # None
          /\ frame[1].instances = <<0, NumLayers>>
    /\ (op = "render" /\ acq # "Ok") =>
          /\ \A c \in ConsumingCalls : Count(calls, c) = 0
          /\ frame = None

\* a second frame drawn after the first, its target presented
C21_Witness ==
    /\ op = "render" /\ acq = "Ok"
    /\ frame[1].dt > 0
    /\ frame[1].instances = <<0, NumLayers>>
    /\ calls[Len(calls)] = "present"
    /\ surface.live = 0

Velocities(g) == <<g.forward, g.backward, g.left, g.right, g.up, g.down>>

\* C26: a render call that draws nothing (the game already stopped, an
\* outdated surface, or a fatal acquisition error) leaves the camera, the
\* camera binding, the last-frame timestamp, the navigation velocities and the
\* surface dimensions as they were.
C26_NoDrawNoChange ==
    [][(op' = "render" /\ acq' # "Ok") =>
          /\ game'.camera = game.camera
          /\ game'.camera_binding = game.camera_binding
          /\ game'.last_time = game.last_time
          /\ Velocities(game') = Velocities(game)
          /\ game'.surf_config = game.surf_config
          /\ surface'.config = surface.config
          /\ game'.depth_texture = game.depth_texture]_vars

\* an outdated surface met after a frame was drawn, with a key held and the
\* camera moved away from where it started
C26_Witness ==
    /\ op = "render" /\ acq = "Outdated"
    /\ game.last_time # None /\ game.last_time # Some(now)
    /\ game.forward = KeySpeed
    /\ game.camera.moved_forward # 0
    /\ calls = <<"request_redraw", "get_current_texture", "configure">>


\* C22: the event loop is asked to exit only after the game's running flag
\* has become false.
C22_ExitOnlyWhenStopped == (loop # "running") => ~game.running

\* C23: an AboutToWait dispatched while the running flag is false asks the
\* loop to exit, and a game that has stopped running leads to the loop's exit;
\* the configuration is written once, on loop exit and not before, and it holds
\* the window's fullscreen flag, monitor and inner size at that moment and the
\* mouse sensitivity loaded at startup.
C23_ExitWritesConfig ==
    /\ [](/\ Len(saved) <= 1
          /\ (loop = "exited") <=> (Len(saved) = 1)
          /\ (saved # <<>>) =>
                saved[1] = [fullscreen        |-> window.fullscreen,
                            monitor           |-> monitor,
                            mouse_sensitivity |-> startup[1].mouse_sensitivity,
                            width             |-> window.inner_size.width,
                            height            |-> window.inner_size.height])
    /\ [][(op' = "about_to_wait" /\ ~game.running) => loop' = "exiting"]_vars
    /\ (~game.running) ~> (loop = "exited")

\* the loop has exited after Escape; the written configuration has the
\* fullscreen flag toggled and the size changed since startup
C23_Witness ==
    /\ loop = "exited"
    /\ ~game.running
    /\ startup = Some([fullscreen |-> FALSE,
                       mouse_sensitivity |-> DefaultSensitivity + 1])
    /\ saved = <<[fullscreen |-> TRUE, monitor |-> Some("HDMI-1"),
                  mouse_sensitivity |-> DefaultSensitivity + 1,
                  width |-> 4, height |-> 2]>>
    /\ game.surf_config = [width |-> 4, height |-> 2]

\* C25: a render call made while Running requests a redraw first and
\* attempts the acquisition second, so a redraw request is pending when it
\* returns; a render call made once Stopped requests none.  After a skipped
\* (outdated) frame another acquisition attempt follows unless the game stops
\* or the loop is asked to exit.
C25_RedrawKeepsLoopGoing ==
    /\ []((op = "render" /\ acq # "none") =>
             /\ Len(calls) >= 2
             /\ calls[1] = "request_redraw"
             /\ calls[2] = "get_current_texture"
             /\ Count(calls, "request_redraw") = 1
             /\ window.redraw_requested)
    /\ []((op = "render" /\ acq = "none") =>
             /\ calls = <<>>
             /\ ~window.redraw_requested)
    /\ \A p \in 0..1 :
          (op = "render" /\ acq = "Outdated" /\ attempts = p)
             ~> (attempts # p \/ ~game.running \/ loop # "running")

\* a frame skipped on an outdated surface, after an earlier attempt, with the
\* next redraw requested and the loop still running
C25_Witness ==
    /\ op = "render" /\ acq = "Outdated"
    /\ attempts = 0
    /\ game.running /\ loop = "running"
    /\ window.redraw_requested
    /\ calls = <<"request_redraw", "get_current_texture", "configure">>

====
